---- MODULE Spec2Model ----
(***************************************************************************)
(* Model of PSMPChecker (src/main.py): a host-side compatibility and       *)
(* health checker.  Strings are sequences of symbols, so that startswith,  *)
(* lower, strip and the `in` substring test are computed, not assumed.     *)
(***************************************************************************)
EXTENDS Integers, Sequences, FiniteSets, TLC

VARIABLES
    pc,             \* position of the entry point (or of a function harness)
    argv,           \* sys.argv
    out,            \* lines printed to standard output, in order
    exit_status,    \* "running", or the process exit status 0 / 1
    exc,            \* "none", or the exception that reached the top level
    psmp_versions,  \* the loaded support matrix
    psmp_version,   \* result of get_installed_psmp_version ("None" when absent)
    distro,         \* (distro_name, distro_version) of get_linux_distribution
    service_status, \* dict returned by check_services_status
    sources,        \* the log source paths that exist on the host
    staging,        \* /tmp/psmp_logs: [exists, files, dirs]
    archive,        \* PSMP_Logs_<date>.zip written by this run: [exists, entries]
    idx,            \* loop index of logs_collect over log_folders
    input,          \* arguments of the function under check
    result          \* its return value

vars == <<pc, argv, out, exit_status, exc, psmp_versions, psmp_version, distro,
          service_status, sources, staging, archive, idx, input, result>>

----------------------------------------------------------------------------
(* Bounds *)
MaxKeys == 2        \* keys of a support matrix
MaxVerLen == 2      \* symbols of a product version string
MaxTextLen == 2     \* chunks of a systemctl status text
MaxLogLen == 2      \* chunks of the console log
MaxLines == 2       \* lines of sshd_config

----------------------------------------------------------------------------
(* Python string primitives *)

\* all sequences over S of length 0..n
SeqsUpTo(S, n) == UNION {[1..k -> S] : k \in 0..n}

\* s.startswith(p)
StartsWith(s, p) == Len(p) <= Len(s) /\ SubSeq(s, 1, Len(p)) = p

\* p in s   (contiguous substring)
Contains(s, p) ==
    \E i \in 0..(Len(s) - Len(p)) : SubSeq(s, i + 1, i + Len(p)) = p

LowerChar(c) ==
    CASE c = "R" -> "r"
      [] c = "H" -> "h"
      [] c = "U" -> "u"
      [] c = "B" -> "b"
      [] OTHER -> c

\* s.lower()
Lower(s) == [i \in 1..Len(s) |-> LowerChar(s[i])]

----------------------------------------------------------------------------
(* Inputs of is_supported *)

VerChars == {"1", "2"}
VersionStrings == SeqsUpTo(VerChars, MaxVerLen) \ {<<>>}

DistroNames == {<<"R", "h">>, <<"r", "H">>, <<"U", "b">>}
DistroVersions == {<<"8", ".", "6">>, <<"7", ".", "9">>, <<"8">>}

\* the 'supported_distributions' lists a key may carry
SampleRules ==
    { <<>>,
      << [name |-> <<"R", "h">>, versions |-> << <<"8">> >>] >>,
      << [name |-> <<"U", "b">>, versions |-> <<>>],
         [name |-> <<"r", "h">>, versions |-> << <<"7">>, <<"8", ".", "6">> >>] >> }

KeySets == {K \in SUBSET VersionStrings : Cardinality(K) <= MaxKeys}
Matrices == UNION {[K -> SampleRules] : K \in KeySets}

----------------------------------------------------------------------------
(* is_supported, src/main.py:38-49 *)

\* the bug of testing the installed version against the key the wrong way
\* round, without the membership pre-check
is_supported_reversed(m, v, n, d) ==
    \E version \in DOMAIN m :
        /\ StartsWith(v, version)
        /\ \E i \in 1..Len(m[version]) :
              /\ Lower(m[version][i].name) = Lower(n)
              /\ \E j \in 1..Len(m[version][i].versions) :
                    StartsWith(d, m[version][i].versions[j])

is_supported(m, v, n, d) ==
    IF v \notin DOMAIN m
    THEN FALSE
    ELSE \E version \in DOMAIN m :
            /\ StartsWith(version, v)
            /\ \E i \in 1..Len(m[version]) :
                  /\ Lower(m[version][i].name) = Lower(n)
                  /\ \E j \in 1..Len(m[version][i].versions) :
                        StartsWith(d, m[version][i].versions[j])

----------------------------------------------------------------------------
(* Values the variables of the entry point hold while a function is checked
   on its own *)
Idle ==
    /\ argv = <<>>
    /\ out = <<>>
    /\ exit_status = "running"
    /\ exc = "none"
    /\ psmp_versions = [loaded |-> FALSE, m |-> <<>>]
    /\ psmp_version = [none |-> TRUE, value |-> <<>>]
    /\ distro = [name |-> <<>>, version |-> <<>>]
    /\ service_status = <<>>
    /\ sources = {}
    /\ staging = [exists |-> FALSE, files |-> {}, dirs |-> {}]
    /\ archive = [exists |-> FALSE, entries |-> {}]
    /\ idx = 0

IdleUnchanged ==
    UNCHANGED <<argv, out, exit_status, exc, psmp_versions, psmp_version,
                distro, service_status, sources, staging, archive, idx>>

----------------------------------------------------------------------------
(* is_supported on its own: every matrix, version and distribution *)

InitSupported ==
    /\ Idle
    /\ pc = "call"
    /\ input \in [m : Matrices, v : VersionStrings,
                  n : DistroNames, d : DistroVersions]
    /\ result = "none"

CallSupported ==
    /\ pc = "call"
    /\ result' = is_supported(input.m, input.v, input.n, input.d)
    /\ pc' = "returned"
    /\ UNCHANGED input
    /\ IdleUnchanged

NextSupported == CallSupported

SpecSupported == InitSupported /\ [][NextSupported]_vars

\* some key of the matrix starts with the installed version
SomeKeyPrefixed(m, v) == \E k \in DOMAIN m : StartsWith(k, v)

\* a rule names the distribution (case-insensitively) with a version prefix
\* that is a prefix of the distribution's version
RuleMatches(rule, n, d) ==
    \E i \in 1..Len(rule) :
        /\ Lower(rule[i].name) = Lower(n)
        /\ \E j \in 1..Len(rule[i].versions) : StartsWith(d, rule[i].versions[j])

\* C1: when some key starts with V, is_supported is true iff some key
\* starting with V has a matching distribution entry (also when V is only a
\* proper prefix of a key).
C1_PrefixKeysDecide ==
    (pc = "returned" /\ SomeKeyPrefixed(input.m, input.v)) =>
        (result = (\E k \in DOMAIN input.m :
                      StartsWith(k, input.v) /\ RuleMatches(input.m[k], input.n, input.d)))

\* C2: is_supported returns false whenever no key of the matrix starts with
\* the installed version.
C2_NoPrefixedKeyFalse ==
    (pc = "returned" /\ ~SomeKeyPrefixed(input.m, input.v)) => (result = FALSE)

C2_Witness ==
    /\ pc = "returned"
    /\ ~SomeKeyPrefixed(input.m, input.v)
    /\ \E k \in DOMAIN input.m : RuleMatches(input.m[k], input.n, input.d)
    /\ result = FALSE

----------------------------------------------------------------------------
(* check_services_status, src/main.py:52-84 *)

\* outcomes of open() other than a file object
FileErrors == {"FileNotFoundError", "PermissionError"}

StatusChunks == {"Active: ", "active", "inactive"}
StatusTexts == SeqsUpTo(StatusChunks, MaxTextLen)
\* outcome of subprocess.check_output("systemctl status ..."): its output, or
\* CalledProcessError on a non-zero exit status
StatusQueries ==
    {[err |-> "none", text |-> t] : t \in StatusTexts}
        \cup {[err |-> "CalledProcessError", text |-> <<>>]}

LogChunks == {"is up and working ", "with Vault", "error"}
LogContents == SeqsUpTo(LogChunks, MaxLogLen)
\* outcome of opening and reading PSMPConsole.log
LogReads ==
    {[err |-> "none", content |-> c] : c \in LogContents}
        \cup {[err |-> e, content |-> <<>>] : e \in FileErrors}

ActiveMarker == <<"Active: ", "active">>
InactiveMarker == <<"Active: ", "inactive">>
VaultMarker == <<"is up and working ", "with Vault">>

\* the bug of not looking at the console log at all
check_psmpsrv_nolog(q, log) ==
    IF q.err = "CalledProcessError"
    THEN [exc |-> "none", status |-> "Inactive"]
    ELSE IF Contains(q.text, ActiveMarker)
         THEN [exc |-> "none", status |-> "Running and communicating with Vault"]
         ELSE [exc |-> "none", status |-> "Inactive"]

\* lines 56-70: the psmpsrv half; only CalledProcessError is caught, so a
\* failing open() of the console log leaves the function by exception
check_psmpsrv(q, log) ==
    IF q.err = "CalledProcessError"
    THEN [exc |-> "none", status |-> "Inactive"]
    ELSE IF Contains(q.text, ActiveMarker)
         THEN IF log.err \in FileErrors
              THEN [exc |-> log.err, status |-> "unset"]
              ELSE IF Contains(log.content, VaultMarker)
                   THEN [exc |-> "none",
                         status |-> "Running and communicating with Vault"]
                   ELSE [exc |-> "none",
                         status |-> "Running but not communicating with Vault"]
         ELSE IF Contains(q.text, InactiveMarker)
              THEN [exc |-> "none", status |-> "Inactive"]
              ELSE [exc |-> "none", status |-> "Inactive"]

\* lines 73-82: the sshd half
check_sshd(q) ==
    IF q.err = "CalledProcessError"
    THEN "Inactive"
    ELSE IF Contains(q.text, ActiveMarker)
         THEN "Running"
         ELSE IF Contains(q.text, InactiveMarker) THEN "Inactive" ELSE "Inactive"

\* the bug of leaving a service out of the dict when its query fails
check_services_status_nokey(psmpsrv_q, log, sshd_q) ==
    LET p == check_psmpsrv(psmpsrv_q, log) IN
    IF p.exc # "none"
    THEN [exc |-> p.exc, statuses |-> <<>>]
    ELSE IF sshd_q.err = "CalledProcessError"
         THEN [exc |-> "none", statuses |-> [psmpsrv |-> p.status]]
         ELSE [exc |-> "none",
               statuses |-> [psmpsrv |-> p.status, sshd |-> check_sshd(sshd_q)]]

\* the whole function: [exc, statuses], statuses the returned dict
check_services_status(psmpsrv_q, log, sshd_q) ==
    LET p == check_psmpsrv(psmpsrv_q, log) IN
    IF p.exc # "none"
    THEN [exc |-> p.exc, statuses |-> <<>>]
    ELSE [exc |-> "none",
          statuses |-> [psmpsrv |-> p.status, sshd |-> check_sshd(sshd_q)]]

----------------------------------------------------------------------------
(* check_services_status on its own: every state text and log content *)

InitServices ==
    /\ Idle
    /\ pc = "call"
    /\ input \in [psmpsrv : StatusQueries, log : LogReads, sshd : StatusQueries]
    /\ result = "none"

CallServices ==
    /\ pc = "call"
    /\ result' = check_services_status(input.psmpsrv, input.log, input.sshd)
    /\ pc' = "returned"
    /\ UNCHANGED input
    /\ IdleUnchanged

NextServices == CallServices

SpecServices == InitServices /\ [][NextServices]_vars

\* C8: with a readable console log, psmpsrv is 'Running and communicating'
\* exactly when the text has "Active: active" and the log has the marker,
\* 'Running but not communicating' exactly when active without the marker,
\* 'Inactive' otherwise; sshd is 'Running' exactly when its text has
\* "Active: active", else 'Inactive', whatever the log holds.
C8_Classification ==
    (pc = "returned" /\ input.log.err = "none") =>
        LET active == Contains(input.psmpsrv.text, ActiveMarker)
            marker == Contains(input.log.content, VaultMarker)
            sactive == Contains(input.sshd.text, ActiveMarker)
        IN  /\ result.exc = "none"
            /\ result.statuses.psmpsrv =
                 (IF active /\ marker THEN "Running and communicating with Vault"
                  ELSE IF active THEN "Running but not communicating with Vault"
                  ELSE "Inactive")
            /\ result.statuses.sshd = (IF sactive THEN "Running" ELSE "Inactive")

C8_Witness ==
    /\ pc = "returned"
    /\ input.log.err = "none"
    /\ Contains(input.psmpsrv.text, ActiveMarker)
    /\ ~Contains(input.log.content, VaultMarker)
    /\ Len(input.log.content) > 0
    /\ result.statuses.psmpsrv = "Running but not communicating with Vault"
    /\ result.statuses.sshd = "Running"

----------------------------------------------------------------------------
(* check_sshd_config, src/main.py:116-143 *)

Whitespace == {" ", "\n"}

RECURSIVE LStrip(_)
LStrip(s) == IF s # <<>> /\ Head(s) \in Whitespace THEN LStrip(Tail(s)) ELSE s

RECURSIVE RStrip(_)
RStrip(s) ==
    IF s # <<>> /\ s[Len(s)] \in Whitespace
    THEN RStrip(SubSeq(s, 1, Len(s) - 1))
    ELSE s

\* s.strip()
Strip(s) == RStrip(LStrip(s))

BlockStartLine == <<"#", " ", "PSMP Authentication Configuration Block Start">>
AllowUserWord == <<"AllowUser">>
PubkeyWord == <<"PubkeyAcceptedAlgorithms">>
CommentSign == <<"#">>

\* lines an sshd_config may hold
SshdLines ==
    { BlockStartLine,
      <<" ">> \o BlockStartLine \o <<" ">>,
      <<"AllowUser", " ", "x">>,
      <<" ", "AllowUser", " ", "x">>,
      <<"#", "AllowUser", " ", "x">>,
      <<"PubkeyAcceptedAlgorithms", " ", "x">>,
      <<"#", " ", "PubkeyAcceptedAlgorithms", " ", "x">>,
      <<" ", "#", "PubkeyAcceptedAlgorithms">>,
      <<"x", " ", "x">>,
      <<>> }

\* outcome of opening /etc/ssh/sshd_config: its lines, or an error
SshdConfigs ==
    {[err |-> "none", lines |-> f] : f \in SeqsUpTo(SshdLines, MaxLines)}
        \cup {[err |-> e, lines |-> <<>>] : e \in FileErrors}

MsgFileNotFound == "sshd_config file not found."
MsgNoBlock == "PSMP authentication block not found."
MsgAllowUser == "AllowUser mentioned found."
MsgNoPubkey ==
    "[+] SSH-Key auth not enabled, sshd_config missing 'PubkeyAcceptedAlgorithms'."

\* lines 124-133: the three flags after the loop over the file
found_pmsp_auth_block(lines) ==
    \E i \in 1..Len(lines) : Strip(lines[i]) = BlockStartLine

found_allow_user(lines) ==
    \E i \in 1..Len(lines) : StartsWith(Strip(lines[i]), AllowUserWord)

found_pubkey_accepted_algorithms(lines) ==
    \E i \in 1..Len(lines) :
        Contains(lines[i], PubkeyWord) /\ ~StartsWith(Strip(lines[i]), CommentSign)

\* a printed line: the fixed text and the values formatted into it
Line(msg, args) == [msg |-> msg, args |-> args]

\* the text msg is among the printed lines
Printed(lines, msg) == \E i \in 1..Len(lines) : lines[i].msg = msg

\* the whole function: [exc, out]; only FileNotFoundError is caught, and the
\* last advisory is decided by found_allow_user (lines 140-143)
check_sshd_config(file) ==
    IF file.err = "FileNotFoundError"
    THEN [exc |-> "none", out |-> <<Line(MsgFileNotFound, <<>>)>>]
    ELSE IF file.err # "none"
    THEN [exc |-> file.err, out |-> <<>>]
    ELSE [exc |-> "none",
          out |-> (IF ~found_pmsp_auth_block(file.lines) THEN <<Line(MsgNoBlock, <<>>)>>
                   ELSE <<>>)
                  \o (IF found_allow_user(file.lines)
                      THEN <<Line(MsgAllowUser, <<>>)>>
                      ELSE <<Line(MsgNoPubkey, <<>>)>>)]


----------------------------------------------------------------------------
(* check_sshd_config on its own: every configuration file *)

InitSshdConfig ==
    /\ Idle
    /\ pc = "call"
    /\ input \in SshdConfigs
    /\ result = "none"

CallSshdConfig ==
    /\ pc = "call"
    /\ result' = check_sshd_config(input)
    /\ pc' = "returned"
    /\ UNCHANGED input
    /\ IdleUnchanged

NextSshdConfig == CallSshdConfig

SpecSshdConfig == InitSshdConfig /\ [][NextSshdConfig]_vars

\* C3: for a readable sshd_config, the 'SSH-Key auth not enabled' advisory is
\* printed iff no line contains PubkeyAcceptedAlgorithms uncommented, whether
\* or not an AllowUser line is present.
C3_PubkeyAdvisory ==
    (pc = "returned" /\ input.err = "none") =>
        (Printed(result.out, MsgNoPubkey) <=>
            ~(\E i \in 1..Len(input.lines) :
                 /\ Contains(input.lines[i], PubkeyWord)
                 /\ ~StartsWith(Strip(input.lines[i]), CommentSign)))

----------------------------------------------------------------------------
(* logs_collect, src/main.py:145-193.  Paths are sequences of components;
   paths inside the staging directory and the archive are relative to
   /tmp/psmp_logs. *)

log_folders ==
    << <<"var", "log", "secure">>,
       <<"var", "log", "messages">>,
       <<"var", "opt", "CARKpsmp", "logs">>,
       <<"var", "opt", "CARKpsmp", "logs", "components">>,
       <<"etc", "ssh", "sshd_config">>,
       <<"etc", "pam.d", "sshd">>,
       <<"etc", "pam.d", "password-auth">>,
       <<"etc", "pam.d", "system-auth">>,
       <<"etc", "nsswitch.conf">>,
       <<"var", "opt", "CARKpsmp", "temp", "EnvManager.log">> >>

LogPaths == {log_folders[i] : i \in 1..Len(log_folders)}

\* os.path.basename
Basename(path) == path[Len(path)]

\* os.path.isdir on the host: the two log directories
IsDir(path) == path \in {log_folders[3], log_folders[4]}

\* the sets of source paths a host can have: a directory inside a missing
\* directory is missing too
HostSources ==
    {S \in SUBSET LogPaths :
        \A p \in S : \A q \in LogPaths : (IsDir(q) /\ StartsWith(p, q)) => q \in S}

\* files below a source directory, relative to it
Tree(path, src) ==
    IF path = log_folders[3]
    THEN {<<"PSMPConsole.log">>}
            \cup (IF log_folders[4] \in src THEN {<<"components", "c.log">>} ELSE {})
    ELSE {<<"c.log">>}

\* directories below a source directory, relative to it (itself included)
TreeDirs(path, src) ==
    IF path = log_folders[3] /\ log_folders[4] \in src
    THEN {<<>>, <<"components">>}
    ELSE {<<>>}

NoStaging == [exists |-> FALSE, files |-> {}, dirs |-> {}]

\* what /tmp/psmp_logs can be when the function is called: absent, empty, or
\* left behind by an interrupted run
StagingStates ==
    { NoStaging,
      [exists |-> TRUE, files |-> {}, dirs |-> {}],
      [exists |-> TRUE, files |-> {<<"stale.txt">>}, dirs |-> {}],
      [exists |-> TRUE, files |-> {<<"secure">>}, dirs |-> {}],
      [exists |-> TRUE, files |-> {<<"logs", "PSMPConsole.log">>},
       dirs |-> {<<"logs">>}] }

NoArchive == [exists |-> FALSE, entries |-> {}]

MsgFolderNotFound == "Folder not found: "
MsgZipCreated == "Logs copied and zip file created: "
MsgErrorOccurred == "An error occurred: "

\* line 162: os.makedirs(temp_folder, exist_ok=True)
makedirs(st) == [st EXCEPT !.exists = TRUE]

\* line 169: shutil.copytree(folder, temp_folder/basename)
copytree(st, folder, src) ==
    [st EXCEPT !.files = @ \cup {<<Basename(folder)>> \o r : r \in Tree(folder, src)},
               !.dirs = @ \cup {<<Basename(folder)>> \o r : r \in TreeDirs(folder, src)}]

\* line 171: shutil.copy(folder, temp_folder)
copy(st, folder) == [st EXCEPT !.files = @ \cup {<<Basename(folder)>>}]

\* lines 180-184: every file found by os.walk, under its path relative to
\* the staging directory
zip_entries(st) == st.files

\* the bug of cleaning up after the archive only, not in a finally clause
after_raise_unclean == "logs_return"

\* lines 188-193: an exception of the try body is printed, then the finally
\* clause runs
after_raise == "logs_finally"

\* line 193: shutil.rmtree(temp_folder, ignore_errors=True)
rmtree(st) == NoStaging

----------------------------------------------------------------------------
(* The entry point, src/main.py:194-230 *)

\* the bug of testing sys.argv[0], the script's name, for the mode
is_logs_mode_argv0(av) == Len(av) = 2 /\ av[1] = "logs"

\* line 196
is_logs_mode(av) == Len(av) = 2 /\ av[2] = "logs"

NotLoaded == [loaded |-> FALSE, m |-> <<>>]
None == [none |-> TRUE, value |-> <<>>]
NoDistro == [name |-> <<>>, version |-> <<>>]
NoQuery == [err |-> "unset", text |-> <<>>]
NoRead == [err |-> "unset", content |-> <<>>]
\* what the run has observed of the host so far (nothing yet)
NoObservations ==
    [rpm |-> NoQuery, psmpsrv |-> NoQuery, log |-> NoRead, sshd |-> NoQuery]

Argvs ==
    { <<"main.py">>, <<"main.py", "logs">>, <<"main.py", "check">>,
      <<"main.py", "logs", "now">> }

Init ==
    /\ pc = "start"
    /\ argv \in Argvs
    /\ out = <<>>
    /\ exit_status = "running"
    /\ exc = "none"
    /\ psmp_versions = NotLoaded
    /\ psmp_version = None
    /\ distro = NoDistro
    /\ service_status = <<>>
    /\ sources = {}
    /\ staging = NoStaging
    /\ archive = NoArchive
    /\ idx = 0
    /\ input = NoObservations
    /\ result = "none"

\* an exception reaches the top level: traceback, exit status 1
Crash(e) ==
    /\ exc' = e
    /\ exit_status' = 1
    /\ pc' = "exit"

\* line 196: the mode
Start ==
    /\ pc = "start"
    /\ pc' = IF is_logs_mode(argv) THEN "logs_makedirs" ELSE "load"
    /\ UNCHANGED <<argv, out, exit_status, exc, psmp_versions, psmp_version,
                   distro, service_status, sources, staging, archive, idx,
                   input, result>>

\* lines 161-162: the host's sources and staging directory as the call finds
\* them; makedirs either creates the directory or fails (the path is a file,
\* /tmp is not writable), which is outside the try
LogsMakedirs ==
    /\ pc = "logs_makedirs"
    /\ \E src \in HostSources, st \in StagingStates :
          /\ sources' = src
          /\ \/ /\ staging' = makedirs(st)
                /\ idx' = 1
                /\ pc' = "logs_copy"
                /\ UNCHANGED <<exc, exit_status>>
             \/ /\ ~st.exists
                /\ staging' = st
                /\ idx' = 0
                /\ Crash("OSError")
    /\ UNCHANGED <<argv, out, psmp_versions, psmp_version, distro,
                   service_status, archive, input, result>>

\* lines 166-173: one iteration of the copy loop
LogsCopy ==
    /\ pc = "logs_copy"
    /\ idx <= Len(log_folders)
    /\ LET folder == log_folders[idx] IN
       IF folder \in sources
       THEN IF IsDir(folder) /\ <<Basename(folder)>> \in staging.dirs
            THEN \* copytree refuses an existing destination
                 /\ out' = Append(out, Line(MsgErrorOccurred, <<"FileExistsError">>))
                 /\ pc' = after_raise
                 /\ UNCHANGED <<staging, idx>>
            ELSE \/ /\ staging' = IF IsDir(folder)
                                  THEN copytree(staging, folder, sources)
                                  ELSE copy(staging, folder)
                    /\ idx' = idx + 1
                    /\ UNCHANGED <<out, pc>>
                 \/ \* the source cannot be read
                    /\ out' = Append(out, Line(MsgErrorOccurred, <<"PermissionError">>))
                    /\ pc' = after_raise
                    /\ UNCHANGED <<staging, idx>>
       ELSE /\ out' = Append(out, Line(MsgFolderNotFound, <<folder>>))
            /\ idx' = idx + 1
            /\ UNCHANGED <<staging, pc>>
    /\ UNCHANGED <<argv, exit_status, exc, psmp_versions, psmp_version, distro,
                   service_status, sources, archive, input, result>>

\* lines 176-186: the archive is written, or ZipFile fails to open it
LogsZip ==
    /\ pc = "logs_copy"
    /\ idx > Len(log_folders)
    /\ \/ /\ archive' = [exists |-> TRUE, entries |-> zip_entries(staging)]
          /\ out' = Append(out, Line(MsgZipCreated, <<>>))
          /\ pc' = "logs_finally"
       \/ /\ out' = Append(out, Line(MsgErrorOccurred, <<"OSError">>))
          /\ pc' = after_raise
          /\ UNCHANGED archive
    /\ UNCHANGED <<argv, exit_status, exc, psmp_versions, psmp_version, distro,
                   service_status, sources, staging, idx, input, result>>

\* lines 191-193: the finally clause
LogsFinally ==
    /\ pc = "logs_finally"
    /\ staging' = rmtree(staging)
    /\ pc' = "logs_return"
    /\ UNCHANGED <<argv, out, exit_status, exc, psmp_versions, psmp_version,
                   distro, service_status, sources, archive, idx, input, result>>

\* line 198: sys.exit(1) after collecting logs
LogsExit ==
    /\ pc = "logs_return"
    /\ exit_status' = 1
    /\ pc' = "exit"
    /\ UNCHANGED <<argv, out, exc, psmp_versions, psmp_version, distro,
                   service_status, sources, staging, archive, idx, input, result>>

----------------------------------------------------------------------------
(* Diagnostic run: helpers of src/main.py:12-35 and 86-112 *)

\* index of the first occurrence of sep in s, 0 when there is none
RECURSIVE Find(_, _, _)
Find(s, sep, i) ==
    IF i > Len(s) THEN 0
    ELSE IF s[i] = sep THEN i
    ELSE Find(s, sep, i + 1)

\* s.split(sep, maxsplit)
RECURSIVE SplitMax(_, _, _)
SplitMax(s, sep, n) ==
    LET i == Find(s, sep, 1) IN
    IF n = 0 \/ i = 0
    THEN <<s>>
    ELSE <<SubSeq(s, 1, i - 1)>> \o SplitMax(SubSeq(s, i + 1, Len(s)), sep, n - 1)

\* s.split(sep)
Split(s, sep) == SplitMax(s, sep, Len(s))

\* outcomes of load_psmp_versions_json('src/versions.json')
MainRule == << [name |-> <<"R", "h">>, versions |-> << <<"8">> >>] >>
MatrixFiles ==
    { [err |-> "FileNotFoundError", m |-> <<>>],
      [err |-> "JSONDecodeError", m |-> <<>>],
      [err |-> "none", m |-> <<>>],
      [err |-> "none", m |-> [k \in {<<"1", ".", "2">>} |-> MainRule]],
      [err |-> "none", m |-> [k \in {<<"1", ".", "2", ".", "1">>} |-> MainRule]] }

\* outcomes of subprocess.check_output("rpm -qa | grep -i cark")
RpmQueries ==
    { [err |-> "CalledProcessError", text |-> <<>>],
      [err |-> "none", text |-> <<>>],
      [err |-> "none", text |-> <<"\n">>],
      [err |-> "none",
       text |-> <<"CARKpsmp", "-", "1", ".", "2", ".", "0", "-", "14", ".", "x86_64", "\n">>],
      [err |-> "none",
       text |-> <<"CARKpsmp", "-", "2", ".", "1", ".", "0", ".", "5", "-", "14", "\n">>],
      [err |-> "none", text |-> <<"CARKpsmp", "\n">>],
      [err |-> "none", text |-> <<"CARKpsmp", "-", "1", ".", "2", "-", "14", "\n">>],
      [err |-> "none",
       text |-> <<"CARKpsmp", "-", "infra", "-", "1", ".", "2", ".", "0", "-", "14", "\n">>] }

\* lines 16-27: [exc, value]; with empty output the function falls off its
\* end and returns None; a malformed line raises out of the function
get_installed_psmp_version(q) ==
    IF q.err = "CalledProcessError"
    THEN [exc |-> "none", value |-> None]
    ELSE LET res == Strip(q.text) IN
         IF res = <<>>
         THEN [exc |-> "none", value |-> None]
         ELSE LET fields == Split(res, "-") IN
              IF Len(fields) < 2
              THEN [exc |-> "IndexError", value |-> None]
              ELSE LET parts == SplitMax(fields[2], ".", 2) IN
                   IF Len(parts) # 3
                   THEN [exc |-> "ValueError", value |-> None]
                   ELSE [exc |-> "none",
                         value |-> [none |-> FALSE,
                                    value |-> parts[1] \o <<".">> \o parts[2]]]

\* the bug of testing nothing before going on
is_falsy_never(v) == FALSE

\* line 205: not psmp_version
is_falsy(v) == v.none \/ v.value = <<>>

\* what distro.version(best=True) and distro.name() give
DistroVersionInfos ==
    { <<"8", ".", "6">>, <<"8">>, <<"7", ".", "9", ".", "2009">>, <<>> }
MainDistroNames == { <<"R", "h">>, <<"U", "b">> }

\* lines 29-35
get_linux_distribution(name, version_info) ==
    LET version_parts == Split(version_info, ".")
        major == version_parts[1]
        minor == IF Len(version_parts) > 1 THEN version_parts[2] ELSE <<"0">>
    IN  [name |-> name, version |-> major \o <<".">> \o minor]

Digits == {"0", "1", "2", "3", "4", "5", "6", "7", "8", "9"}

DigitVal(c) ==
    CASE c = "0" -> 0 [] c = "1" -> 1 [] c = "2" -> 2 [] c = "3" -> 3
      [] c = "4" -> 4 [] c = "5" -> 5 [] c = "6" -> 6 [] c = "7" -> 7
      [] c = "8" -> 8 [] c = "9" -> 9

\* int(digits)
RECURSIVE IntVal(_)
IntVal(ds) ==
    IF ds = <<>> THEN 0
    ELSE 10 * IntVal(SubSeq(ds, 1, Len(ds) - 1)) + DigitVal(ds[Len(ds)])

\* length of the longest run of digits of s that starts at position i
RECURSIVE DigitRun(_, _)
DigitRun(s, i) ==
    IF i <= Len(s) /\ s[i] \in Digits THEN 1 + DigitRun(s, i + 1) ELSE 0

\* the regular expression OpenSSH_(\d+\.\d+) matches at position i
MatchesAt(s, i) ==
    /\ s[i] = "OpenSSH_"
    /\ LET n == DigitRun(s, i + 1) IN
          /\ n >= 1
          /\ i + n + 1 <= Len(s)
          /\ s[i + n + 1] = "."
          /\ DigitRun(s, i + n + 2) >= 1

\* re.search: the leftmost match, as [matched, major, minor] (digit strings)
re_search_openssh(s) ==
    LET hits == {i \in 1..Len(s) : MatchesAt(s, i)} IN
    IF hits = {}
    THEN [matched |-> FALSE, major |-> <<>>, minor |-> <<>>]
    ELSE LET i == CHOOSE h \in hits : \A g \in hits : h <= g
             n == DigitRun(s, i + 1)
         IN  [matched |-> TRUE,
              major |-> SubSeq(s, i + 1, i + n),
              minor |-> SubSeq(s, i + n + 2, i + n + 1 + DigitRun(s, i + n + 2))]

\* outcomes of subprocess.check_output(["ssh", "-V"]); a missing ssh binary
\* raises FileNotFoundError, not CalledProcessError
SshQueries ==
    { [err |-> "CalledProcessError", text |-> <<>>],
      [err |-> "FileNotFoundError", text |-> <<>>],
      [err |-> "none", text |-> <<"OpenSSH_", "7", ".", "6", "p1", ",", "OpenSSL">>],
      [err |-> "none", text |-> <<"OpenSSH_", "7", ".", "7">>],
      [err |-> "none", text |-> <<"OpenSSH_", "8", ".", "9", "p1">>],
      [err |-> "none", text |-> <<"OpenSSH_", "7", ".", "1", "0">>],
      [err |-> "none", text |-> <<"usage", ":", "ssh">>] }

\* the threshold 7.7 of line 105
MinSshMajor == 7
MinSshTenths == 7

\* float(major.minor) >= 7.7
AtLeastMinimum(v) ==
    \/ IntVal(v.major) > MinSshMajor
    \/ IntVal(v.major) = MinSshMajor /\ DigitVal(v.minor[1]) >= MinSshTenths

MsgSshTooOld == "[+] OpenSSH version is: , required version 7.7 and above."
MsgSshUnknown == "Failed to determine OpenSSH version."

\* lines 86-112: [exc, success, message]
check_openssh_version(q) ==
    IF q.err = "FileNotFoundError"
    THEN [exc |-> q.err, success |-> FALSE, message |-> <<>>]
    ELSE IF q.err = "CalledProcessError"
    THEN [exc |-> "none", success |-> FALSE,
          message |-> <<Line(MsgSshUnknown, <<>>)>>]
    ELSE LET v == re_search_openssh(q.text) IN
         IF ~v.matched
         THEN [exc |-> "none", success |-> FALSE,
               message |-> <<Line(MsgSshUnknown, <<>>)>>]
         ELSE IF AtLeastMinimum(v)
         THEN [exc |-> "none", success |-> TRUE, message |-> <<>>]
         ELSE [exc |-> "none", success |-> FALSE,
               message |-> <<Line(MsgSshTooOld, <<v.major, v.minor>>)>>]

\* dict.get(key, default)
Get(d, k, default) == IF k \in DOMAIN d THEN d[k] ELSE default

\* outcomes of the two systemctl queries, of reading the console log and of
\* opening sshd_config that a diagnostic run meets
MainStatusQueries ==
    { [err |-> "CalledProcessError", text |-> <<>>],
      [err |-> "none", text |-> <<"Active: ", "active">>],
      [err |-> "none", text |-> <<"Active: ", "inactive">>],
      [err |-> "none", text |-> <<>>] }
MainLogReads ==
    { [err |-> "FileNotFoundError", content |-> <<>>],
      [err |-> "PermissionError", content |-> <<>>],
      [err |-> "none", content |-> <<"error", "is up and working ", "with Vault">>],
      [err |-> "none", content |-> <<"error">>] }
MainSshdConfigs ==
    {[err |-> "none", lines |-> <<l>>] : l \in SshdLines}
        \cup {[err |-> "none", lines |-> <<BlockStartLine, l>>] : l \in SshdLines}
        \cup {[err |-> e, lines |-> <<>>] : e \in FileErrors}

MsgNoVersion == "[+] No PSMP version found."
MsgPsmpVersion == "PSMP version: "
MsgDistribution == "Linux distribution: "
MsgSupports == "PSMP version  Supports "
MsgDoesNotSupport == "PSMP version  Does Not Support "
MsgPsmpStatus == "PSMP Service Status: "
MsgSshdStatus == "SSHD Service Status: "

----------------------------------------------------------------------------
(* Diagnostic run: the entry point, src/main.py:200-230 *)

\* line 201: the matrix is loaded, or the exception of open / json.load
\* reaches the top level
Load ==
    /\ pc = "load"
    /\ \E f \in MatrixFiles :
          IF f.err # "none"
          THEN /\ Crash(f.err)
               /\ UNCHANGED psmp_versions
          ELSE /\ psmp_versions' = [loaded |-> TRUE, m |-> f.m]
               /\ pc' = "version"
               /\ UNCHANGED <<exc, exit_status>>
    /\ UNCHANGED <<argv, out, psmp_version, distro, service_status, sources,
                   staging, archive, idx, input, result>>

\* line 204: the package query (recorded in input) and its parse
GetVersion ==
    /\ pc = "version"
    /\ \E q \in RpmQueries :
          LET r == get_installed_psmp_version(q) IN
          /\ input' = [input EXCEPT !.rpm = q]
          /\ IF r.exc # "none"
             THEN /\ Crash(r.exc)
                  /\ UNCHANGED psmp_version
             ELSE /\ psmp_version' = r.value
                  /\ pc' = "version_check"
                  /\ UNCHANGED <<exc, exit_status>>
    /\ UNCHANGED <<argv, out, psmp_versions, distro, service_status, sources,
                   staging, archive, idx, result>>

\* lines 205-207
CheckVersion ==
    /\ pc = "version_check"
    /\ IF is_falsy(psmp_version)
       THEN /\ out' = Append(out, Line(MsgNoVersion, <<>>))
            /\ exit_status' = 1
            /\ pc' = "exit"
       ELSE /\ pc' = "distro"
            /\ UNCHANGED <<out, exit_status>>
    /\ UNCHANGED <<argv, exc, psmp_versions, psmp_version, distro,
                   service_status, sources, staging, archive, idx, input, result>>

\* lines 210-219: distribution, the two header lines, the compatibility line
Compatibility ==
    /\ pc = "distro"
    /\ \E name \in MainDistroNames, info \in DistroVersionInfos :
          LET d == get_linux_distribution(name, info) IN
          /\ distro' = d
          /\ out' = out \o
                <<Line(MsgPsmpVersion, <<psmp_version.value>>),
                  Line(MsgDistribution, <<d.name, d.version>>),
                  Line(IF is_supported(psmp_versions.m, psmp_version.value,
                                       d.name, d.version)
                       THEN MsgSupports
                       ELSE MsgDoesNotSupport,
                       <<psmp_version.value, d.name, d.version>>)>>
    /\ pc' = "services"
    /\ UNCHANGED <<argv, exit_status, exc, psmp_versions, psmp_version,
                   service_status, sources, staging, archive, idx, input, result>>

\* lines 222-224
Services ==
    /\ pc = "services"
    /\ \E p \in MainStatusQueries, log \in MainLogReads, s \in MainStatusQueries :
          LET r == check_services_status(p, log, s) IN
          /\ input' = [input EXCEPT !.psmpsrv = p, !.log = log, !.sshd = s]
          /\ IF r.exc # "none"
             THEN /\ Crash(r.exc)
                  /\ UNCHANGED <<service_status, out>>
             ELSE /\ service_status' = r.statuses
                  /\ out' = out \o
                        <<Line(MsgPsmpStatus,
                               <<Get(r.statuses, "psmpsrv", "Unavailable")>>),
                          Line(MsgSshdStatus,
                               <<Get(r.statuses, "sshd", "Unavailable")>>)>>
                  /\ pc' = "openssh"
                  /\ UNCHANGED <<exc, exit_status>>
    /\ UNCHANGED <<argv, psmp_versions, psmp_version, distro, sources, staging,
                   archive, idx, result>>

\* lines 226-228
OpenSsh ==
    /\ pc = "openssh"
    /\ \E q \in SshQueries :
          LET r == check_openssh_version(q) IN
          IF r.exc # "none"
          THEN /\ Crash(r.exc)
               /\ UNCHANGED out
          ELSE /\ out' = IF ~r.success THEN out \o r.message ELSE out
               /\ pc' = "sshd_config"
               /\ UNCHANGED <<exc, exit_status>>
    /\ UNCHANGED <<argv, psmp_versions, psmp_version, distro, service_status,
                   sources, staging, archive, idx, input, result>>

\* line 230, then the implicit exit with status 0
SshdConfig ==
    /\ pc = "sshd_config"
    /\ \E f \in MainSshdConfigs :
          LET r == check_sshd_config(f) IN
          IF r.exc # "none"
          THEN /\ Crash(r.exc)
               /\ UNCHANGED out
          ELSE /\ out' = out \o r.out
               /\ exit_status' = 0
               /\ pc' = "exit"
               /\ UNCHANGED exc
    /\ UNCHANGED <<argv, psmp_versions, psmp_version, distro, service_status,
                   sources, staging, archive, idx, input, result>>

Next ==
    \/ Start
    \/ LogsMakedirs
    \/ LogsCopy
    \/ LogsZip
    \/ LogsFinally
    \/ LogsExit
    \/ Load
    \/ GetVersion
    \/ CheckVersion
    \/ Compatibility
    \/ Services
    \/ OpenSsh
    \/ SshdConfig

Spec == Init /\ [][Next]_vars

----------------------------------------------------------------------------
(* Properties of the log collection *)

\* the function has left its try statement
LogsReturned == pc = "logs_return" \/ (pc = "exit" /\ idx >= 1)

NotFoundPaths ==
    {out[i].args[1] : i \in {j \in 1..Len(out) : out[j].msg = MsgFolderNotFound}}

\* the copy or the compression raised
Raised == Printed(out, MsgErrorOccurred)

\* the files of the existing sources, each under its source's base name
ExpectedEntries ==
    UNION { IF IsDir(p)
            THEN {<<Basename(p)>> \o r : r \in Tree(p, sources)}
            ELSE {<<Basename(p)>>} : p \in sources }

\* C9: with at least one source missing (and nothing raised by the copy or
\* the compression), the archive is created, exactly the missing paths are
\* reported, and the archive holds exactly the files of the existing sources,
\* nothing that was in the staging directory before the call.
C9_ArchiveOfExistingSources ==
    (pc = "logs_return" /\ sources # LogPaths /\ ~Raised) =>
        /\ archive.exists
        /\ NotFoundPaths = LogPaths \ sources
        /\ archive.entries = ExpectedEntries

----------------------------------------------------------------------------
(* Properties of the entry point *)

DiagnosticMsgs ==
    { MsgNoVersion, MsgPsmpVersion, MsgDistribution, MsgSupports,
      MsgDoesNotSupport, MsgPsmpStatus, MsgSshdStatus, MsgSshTooOld,
      MsgSshUnknown, MsgFileNotFound, MsgNoBlock, MsgAllowUser, MsgNoPubkey }

\* C5: in a diagnostic run whose matrix loaded and whose installed version
\* was found, the run ends with every check done and printed (compatibility,
\* both service statuses, the sshd_config audit) and no exception at the top
\* level; an unreadable console log under an active psmpsrv degrades to
\* 'Running but not communicating with Vault'.
C5_AllChecksRun ==
    (pc = "exit" /\ psmp_versions.loaded /\ ~psmp_version.none) =>
        /\ exc = "none"
        /\ exit_status = 0
        /\ Printed(out, MsgSupports) \/ Printed(out, MsgDoesNotSupport)
        /\ Printed(out, MsgPsmpStatus)
        /\ Printed(out, MsgSshdStatus)
        /\ Printed(out, MsgFileNotFound) \/ Printed(out, MsgAllowUser)
              \/ Printed(out, MsgNoPubkey)

\* the package query gave no output, or failed
NoPackageFound ==
    \/ input.rpm.err = "CalledProcessError"
    \/ input.rpm.err = "none" /\ Strip(input.rpm.text) = <<>>

\* C6: when the package query yields no output or fails, the detector
\* returns None, the run prints the no-version message and exits with
\* status 1, and no later check is run or printed.
C6_NoVersionStops ==
    NoPackageFound =>
        /\ psmp_version.none
        /\ \/ pc = "version_check"
           \/ /\ pc = "exit"
              /\ exit_status = 1
              /\ exc = "none"
              /\ Len(out) = 1
              /\ out[1].msg = MsgNoVersion
              /\ distro = NoDistro
              /\ DOMAIN service_status = {}

C6_Witness ==
    /\ input.rpm.err = "CalledProcessError"
    /\ pc = "exit"
    /\ exit_status = 1
    /\ Len(out) = 1
    /\ out[1].msg = MsgNoVersion

\* C7: invoked with exactly one argument equal to "logs", the program only
\* collects logs: it never loads the matrix, never runs or prints a
\* diagnostic check, and exits with status 1, whether the collection
\* succeeded or raised.
C7_LogsModeOnly ==
    (Len(argv) = 2 /\ argv[2] = "logs") =>
        /\ pc \in {"start", "logs_makedirs", "logs_copy", "logs_finally",
                   "logs_return", "exit"}
        /\ ~psmp_versions.loaded
        /\ psmp_version.none
        /\ input = NoObservations
        /\ DOMAIN service_status = {}
        /\ \A i \in 1..Len(out) : out[i].msg \notin DiagnosticMsgs
        /\ pc = "exit" => exit_status = 1

C7_Witness ==
    /\ Len(argv) = 2
    /\ argv[2] = "logs"
    /\ pc = "exit"
    /\ exit_status = 1
    /\ exc = "none"
    /\ Printed(out, MsgErrorOccurred)

\* C10: once check_services_status has returned, its dict has both keys,
\* psmpsrv one of its three values and sshd 'Running' or 'Inactive', a failed
\* query shows as 'Inactive', and 'Unavailable' is never printed.
C10_StatusDictComplete ==
    /\ (pc \in {"openssh", "sshd_config"} \/ DOMAIN service_status # {}) =>
          /\ DOMAIN service_status = {"psmpsrv", "sshd"}
          /\ service_status.psmpsrv \in
                {"Running and communicating with Vault",
                 "Running but not communicating with Vault", "Inactive"}
          /\ service_status.sshd \in {"Running", "Inactive"}
          /\ input.psmpsrv.err = "CalledProcessError" =>
                service_status.psmpsrv = "Inactive"
          /\ input.sshd.err = "CalledProcessError" =>
                service_status.sshd = "Inactive"
    /\ \A i \in 1..Len(out) :
          out[i].msg \in {MsgPsmpStatus, MsgSshdStatus} =>
              out[i].args # <<"Unavailable">>

C10_Witness ==
    /\ pc = "openssh"
    /\ input.sshd.err = "CalledProcessError"
    /\ input.psmpsrv.err = "CalledProcessError"
    /\ service_status = [psmpsrv |-> "Inactive", sshd |-> "Inactive"]
    /\ out[Len(out)] = Line(MsgSshdStatus, <<"Inactive">>)

====
